---- MODULE Spec2Model ----
(***************************************************************************)
(* Model of multipy/augment.py: the type-combo expander, the three pattern *)
(* processors and the augmentation driver augment_columns.                 *)
(*                                                                         *)
(* Data representation.                                                    *)
(*   - a column is the Python tuple (header, values): <<header, values>>,  *)
(*     so c[0], c[1] of the source are c[1], c[2] here;                    *)
(*   - a Python str that the code builds is a sequence of tokens, and      *)
(*     string concatenation is \o; a cell of the table is a one-token      *)
(*     string <<raw>>;                                                     *)
(*   - a raw token is a timestamp of the year 2016, [doy, sec]: its day of *)
(*     the year and its second of the day;                                 *)
(*   - a call returns [exc, val]: the exception it raised (NoExc when it   *)
(*     returned) and the value it returned.                                *)
(***************************************************************************)
EXTENDS Integers, Sequences, FiniteSets, TLC

\* Bounds of the model.
MaxCols == 4
MaxRows == 2

VARIABLES
    args,           \* which arguments the caller passed: [columns, df]
    columns,        \* the `columns` argument (<<>> when it is None)
    column_types,   \* the `column_types` argument: header -> list of tags
    call,           \* the function the caller invoked ("none" before the call)
    pc,             \* "start", "loop" (inside augment_columns), "done", "raised"
    headers,        \* augment_columns: headers
    todo,           \* augment_columns: the column combos still to enumerate
    column_combo,   \* augment_columns: the column combo of the last iteration
    type_combos,    \* augment_columns: its type combos
    combo_values,   \* augment_columns: its columns
    new_columns,    \* augment_columns: new_columns
    performed,      \* augment_columns: performed
    fired,          \* history: one record per performed.append
    ret,            \* the value returned (<<>> until the call returns)
    exc             \* the exception raised (NoExc if none)

vars == <<args, columns, column_types, call, pc, headers, todo, column_combo,
          type_combos, combo_values, new_columns, performed, fired, ret, exc>>

----------------------------------------------------------------------------
\* Generic helpers.

Range(s) == {s[i] : i \in 1..Len(s)}

InSeq(x, s) == \E i \in 1..Len(s) : s[i] = x

RECURSIVE Flatten(_)
Flatten(ss) == IF ss = <<>> THEN <<>> ELSE Head(ss) \o Flatten(Tail(ss))

RECURSIVE SeqsUpTo(_, _)
SeqsUpTo(S, n) ==
    IF n = 0 THEN {<<>>}
    ELSE SeqsUpTo(S, n - 1) \cup
         {Append(s, x) : s \in {t \in SeqsUpTo(S, n - 1) : Len(t) = n - 1}, x \in S}

NoExc == [type |-> "none", where |-> "none"]
Ok(v) == [exc |-> NoExc, val |-> v]
Raise(t, w) == [exc |-> [type |-> t, where |-> w], val |-> <<>>]

----------------------------------------------------------------------------
\* itertools

\* itertools.combinations(s, k): the k-element subsequences, in lexicographic
\* order of their positions.
RECURSIVE Combinations(_, _)
Combinations(s, k) ==
    IF k = 0 THEN << <<>> >>
    ELSE IF Len(s) < k THEN <<>>
    ELSE LET withHead == Combinations(Tail(s), k - 1)
         IN  [i \in 1..Len(withHead) |-> <<Head(s)>> \o withHead[i]]
             \o Combinations(Tail(s), k)

\* (mutant of Product: zip(*lists) in place of itertools.product(*lists))
Product_Zip(lists) ==
    IF lists = <<>> THEN <<>>
    ELSE LET n == CHOOSE n \in 0..Len(lists[1]) :
                      /\ \A j \in 1..Len(lists) : n <= Len(lists[j])
                      /\ \E j \in 1..Len(lists) : n = Len(lists[j])
         IN  [i \in 1..n |-> [j \in 1..Len(lists) |-> lists[j][i]]]

\* itertools.product(*lists): one element of each list, the last list varying
\* fastest.
RECURSIVE Product(_)
Product(lists) ==
    IF lists = <<>> THEN << <<>> >>
    ELSE LET rest == Product(Tail(lists))
             first == Head(lists)
         IN  Flatten([i \in 1..Len(first) |->
                        [j \in 1..Len(rest) |-> <<first[i]>> \o rest[j]]])

----------------------------------------------------------------------------
\* get_column_type_combos

\* column_types[header] of a header the dict lacks raises KeyError.
HasKey(d, k) == k \in DOMAIN d

\* (mutant of get_column_type_combos: column_types.get(header, []) in place of
\* column_types[header])
get_column_type_combos_Lenient(combo, types) ==
    Ok(Product([j \in 1..Len(combo) |->
                  IF HasKey(types, combo[j])
                  THEN [i \in 1..Len(types[combo[j]]) |-> <<combo[j], types[combo[j]][i]>>]
                  ELSE <<>>]))

get_column_type_combos(combo, types) ==
    IF \E j \in 1..Len(combo) : ~HasKey(types, combo[j])
    THEN Raise("KeyError", "get_column_type_combos")
    ELSE LET combo_types ==
                 [j \in 1..Len(combo) |->
                    [i \in 1..Len(types[combo[j]]) |-> <<combo[j], types[combo[j]][i]>>]]
         IN  Ok(Product(combo_types))

----------------------------------------------------------------------------
\* Strings and the date-cleaning collaborator.

\* A raw cell: a timestamp of 2016, by day of the year and second of the day.
Days == {1, 2, 8, 32}
Seconds == {0, 1, 15323}
RawValues == [doy : Days, sec : Seconds]

\* sep.join(items), items being strings
RECURSIVE Join(_, _)
Join(sep, items) ==
    IF items = <<>> THEN <<>>
    ELSE IF Len(items) = 1 THEN Head(items)
    ELSE Head(items) \o <<sep>> \o Join(sep, Tail(items))

\* preppy.clean_list.clean_dates (external): each raw value parsed to a
\* date-time, of which the code reads .dt.dayofweek (Monday = 0), .dt.day,
\* .dt.time and .dt.hour.  2016-01-01 is a Friday; January has 31 days.
parse_date(raw) ==
    [dayofweek |-> (raw.doy + 3) % 7,
     day       |-> IF raw.doy <= 31 THEN raw.doy ELSE raw.doy - 31,
     hour      |-> raw.sec \div 3600,
     time      |-> <<raw.sec \div 3600, (raw.sec % 3600) \div 60, raw.sec % 60>>]

clean_dates(values) == [i \in 1..Len(values) |-> parse_date(values[i][1])]

----------------------------------------------------------------------------
\* process_coords

\* [c for c in column_values if tag in column_types[c[0]]]
TaggedColumns(tag, column_values, types) ==
    SelectSeq(column_values, LAMBDA c : InSeq(tag, types[c[1]]))

MissingKey(column_values, types) ==
    \E j \in 1..Len(column_values) : ~HasKey(types, column_values[j][1])

\* Line 43 runs before the length check of line 45: lat_column[0] of an empty
\* list raises IndexError, and '_'.join of the two (header, values) tuples
\* raises TypeError, because join takes strings.  Nothing after line 43 is
\* reached.
process_coords(column_values, types) ==
    IF MissingKey(column_values, types) THEN Raise("KeyError", "process_coords")
    ELSE LET lat_column == TaggedColumns("latitude", column_values, types)
             lng_column == TaggedColumns("longitude", column_values, types)
         IN  IF Len(lat_column) = 0 \/ Len(lng_column) = 0
             THEN Raise("IndexError", "process_coords")
             ELSE Raise("TypeError", "process_coords")

----------------------------------------------------------------------------
\* process_address_components

\* [(role, c[1]) for c in column_values if role in column_types[c[0]]]
RoleColumns(role, column_values, types) ==
    LET cs == TaggedColumns(role, column_values, types)
    IN  [i \in 1..Len(cs) |-> <<role, cs[i][2]>>]

\* for c in [street_column, city_column, region_column]:
\*     if len(c) > 0: columns.append(c[0])
FirstOfEach(lists) ==
    Flatten([i \in 1..Len(lists) |->
               IF Len(lists[i]) > 0 THEN <<lists[i][1]>> ELSE <<>>])

\* pd.DataFrame(np.array([c[1] for c in columns]).T, columns=[c[0] for c in columns]):
\* the frame as label -> column of values.
DataFrame(cols) ==
    [label \in {cols[i][1] : i \in 1..Len(cols)} |->
        cols[CHOOSE i \in 1..Len(cols) : cols[i][1] = label][2]]

\* Series.astype(str) of values that are strings.
astype_str(series) == [i \in 1..Len(series) |-> series[i]]

\* left.str.cat(right, sep=sep)
AddressSep == " "
RegionSep == ", "
\* (mutant of str_cat: the operands swapped)
str_cat_Swapped(left, right, sep) ==
    [i \in 1..Len(left) |-> right[i] \o <<sep>> \o left[i]]

str_cat(left, right, sep) ==
    [i \in 1..Len(left) |-> left[i] \o <<sep>> \o right[i]]

process_address_components(column_values, types) ==
    IF MissingKey(column_values, types)
    THEN Raise("KeyError", "process_address_components")
    ELSE LET street_column == RoleColumns("street", column_values, types)
             city_column == RoleColumns("city", column_values, types)
             region_column == RoleColumns("state", column_values, types)
             cols == FirstOfEach(<<street_column, city_column, region_column>>)
             df == DataFrame(cols)
         IN  IF "city" \notin DOMAIN df
             THEN Raise("KeyError", "process_address_components")
             ELSE LET address ==
                          IF Len(street_column) > 0
                          THEN str_cat(astype_str(df["street"]), df["city"], AddressSep)
                          ELSE df["city"]
                      full ==
                          IF Len(region_column) > 0
                          THEN str_cat(address, df["state"], RegionSep)
                          ELSE address
                  IN  Ok(<< <<(<<"full_address">>), full>> >>)

----------------------------------------------------------------------------
\* process_datetime

day_of_week ==
    [d \in 0..6 |->
        CASE d = 0 -> "Monday" [] d = 1 -> "Tuesday" [] d = 2 -> "Wednesday"
          [] d = 3 -> "Thursday" [] d = 4 -> "Friday" [] d = 5 -> "Saturday"
          [] OTHER -> "Sunday"]

Midnight == <<0, 0, 0>>

\* len(list(set(column))) == 1: the derived column is dropped
IsConstant(column) == Cardinality(Range(column)) = 1

process_datetime(column_values, types) ==
    IF Len(column_values) = 0 THEN Raise("IndexError", "process_datetime")
    ELSE LET values == column_values[1][2]
             header == column_values[1][1]
             week_header == <<header, "_day_of_week">>
             month_header == <<header, "_day_of_month">>
             hour_header == <<header, "_hour_of_day">>
             dates == clean_dates(values)
             week_column ==
                 <<week_header, [i \in 1..Len(dates) |-> day_of_week[dates[i].dayofweek]]>>
             month_column == <<month_header, [i \in 1..Len(dates) |-> dates[i].day]>>
             times == [i \in 1..Len(dates) |-> dates[i].time]
             hour_column == <<hour_header, [i \in 1..Len(dates) |-> dates[i].hour]>>
         IN  Ok((IF IsConstant(week_column[2]) THEN <<>> ELSE <<week_column>>)
                \o (IF IsConstant(month_column[2]) THEN <<>> ELSE <<month_column>>)
                \o (IF \E i \in 1..Len(times) : times[i] # Midnight
                    THEN <<hour_column>> ELSE <<>>))

----------------------------------------------------------------------------
\* augment_columns

\* Python's order of the tag strings, as sorted() compares them.
TagRank(tag) ==
    CASE tag = "city" -> 1 [] tag = "datetime" -> 2 [] tag = "latitude" -> 3
      [] tag = "longitude" -> 4 [] tag = "state" -> 5 [] tag = "street" -> 6

RECURSIVE Insert(_, _)
Insert(x, s) ==
    IF s = <<>> THEN <<x>>
    ELSE IF TagRank(x) < TagRank(Head(s)) THEN <<x>> \o s
    ELSE <<Head(s)>> \o Insert(x, Tail(s))

RECURSIVE sorted(_)
sorted(s) == IF s = <<>> THEN <<>> ELSE Insert(Head(s), sorted(Tail(s)))

\* ','.join(sorted([c[1] for c in combo]))
PatternStr(combo) ==
    LET tags == sorted([i \in 1..Len(combo) |-> combo[i][2]])
    IN  Join(",", [i \in 1..Len(tags) |-> <<tags[i]>>])

processors ==
    (<<"latitude", ",", "longitude">> :> "process_coords")
    @@ (<<"datetime">> :> "process_datetime")
    @@ (<<"city", ",", "state", ",", "street">> :> "process_address_components")
    @@ (<<"city", ",", "street">> :> "process_address_components")

\* for L in reversed(range(1,4))
SubsetLengths == <<3, 2, 1>>

\* The column combos of the two outer loops, in the order they are visited.
AllColumnCombos(hs) ==
    Flatten([l \in 1..Len(SubsetLengths) |-> Combinations(hs, SubsetLengths[l])])

\* [cv for cv in column_values if cv[0] in list(column_combo)]
ComboValues(column_values, combo) ==
    SelectSeq(column_values, LAMBDA cv : InSeq(cv[1], combo))

\* (mutant of NotPerformed: the check of `performed` left out)
NotPerformed_Always(f, done) == TRUE

\* f not in performed
NotPerformed(f, done) == ~InSeq(f, done)

\* The loop over the type combos of one column combo (lines 218-227), from the
\* i-th on; st is [new_columns, performed, fired].  A match appends the two
\* elements of the tuple (combo_values, column_types) to new_columns: f is not
\* called.
RECURSIVE TypeComboLoop(_, _, _, _, _, _)
TypeComboLoop(combos, i, st, cvalues, types, ccombo) ==
    IF i > Len(combos) THEN st
    ELSE LET combo == combos[i]
             pattern_str == PatternStr(combo)
         IN  IF pattern_str \notin DOMAIN processors
             THEN TypeComboLoop(combos, i + 1, st, cvalues, types, ccombo)
             ELSE LET f == processors[pattern_str]
                  IN  IF NotPerformed(f, st.performed)
                      THEN TypeComboLoop(combos, i + 1,
                               [new_columns |-> st.new_columns \o <<cvalues, types>>,
                                performed   |-> Append(st.performed, f),
                                fired       |-> Append(st.fired,
                                                  [f |-> f, column_combo |-> ccombo,
                                                   combo |-> combo, pattern |-> pattern_str])],
                               cvalues, types, ccombo)
                      ELSE TypeComboLoop(combos, i + 1, st, cvalues, types, ccombo)

----------------------------------------------------------------------------
\* Inputs.

HeaderNames == <<"ca", "cb", "cc", "cd", "ce", "cf">>

\* The tag lists a column may carry.
TagChoices ==
    { <<>>, <<"latitude">>, <<"longitude">>, <<"datetime">>, <<"city">>,
      <<"state">>, <<"street">>, <<"city", "street">> }

\* Column k of the table: MaxRows cells, no two cells of the table alike.
TableColumn(k) ==
    <<HeaderNames[k], [i \in 1..MaxRows |-> << [doy |-> k + 7 * (i - 1), sec |-> 0] >>]>>

Table(n) == [k \in 1..n |-> TableColumn(k)]

TypeMaps(n) ==
    UNION { [D -> TagChoices] : D \in SUBSET {HeaderNames[k] : k \in 1..n} }

Idle ==
    /\ call = "none" /\ pc = "start"
    /\ headers = <<>> /\ todo = <<>> /\ column_combo = <<>> /\ type_combos = <<>>
    /\ combo_values = <<>> /\ new_columns = <<>> /\ performed = <<>> /\ fired = <<>>
    /\ ret = <<>> /\ exc = NoExc

\* A list of 0..MaxCols columns with any type map over some of their headers;
\* or no column list; a dataframe is passed only beside no or an empty list
\* (it is not read otherwise).
Init ==
    /\ \E n \in 0..MaxCols :
          /\ columns = Table(n)
          /\ column_types \in TypeMaps(n)
          /\ args \in IF n = 0
                      THEN [columns : {"None", "list"}, df : {"None", "DataFrame"}]
                      ELSE [columns : {"list"}, df : {"None"}]
    /\ Idle

----------------------------------------------------------------------------
\* A call of augment_columns.

\* `not columns`: None and the empty list are falsy.
NotColumns == args.columns = "None" \/ Len(columns) = 0

driverVars == <<headers, todo, column_combo, type_combos, combo_values,
                new_columns, performed, fired>>

\* Lines 184-210.  raise('...') raises TypeError (a str is no exception);
\* `not df` of a DataFrame raises ValueError (its truth value is ambiguous).
Enter ==
    /\ pc = "start"
    /\ call' = "augment_columns"
    /\ IF NotColumns /\ args.df = "None"
       THEN /\ pc' = "raised"
            /\ exc' = [type |-> "TypeError", where |-> "augment_columns:185"]
            /\ UNCHANGED driverVars
       ELSE IF NotColumns
       THEN /\ pc' = "raised"
            /\ exc' = [type |-> "ValueError", where |-> "augment_columns:184"]
            /\ UNCHANGED driverVars
       ELSE /\ pc' = "loop"
            /\ headers' = [i \in 1..Len(columns) |-> columns[i][1]]
            /\ todo' = AllColumnCombos(headers')
            /\ new_columns' = <<>>
            /\ performed' = <<>>
            /\ UNCHANGED <<column_combo, type_combos, combo_values, fired, exc>>
    /\ UNCHANGED <<args, columns, column_types, ret>>

\* One iteration of the loop over the column combos (lines 213-227).
Iterate ==
    /\ pc = "loop" /\ todo # <<>>
    /\ LET r == get_column_type_combos(Head(todo), column_types)
           cvalues == ComboValues(columns, Head(todo))
           st == TypeComboLoop(r.val, 1,
                     [new_columns |-> <<>>, performed |-> performed, fired |-> fired],
                     cvalues, column_types, Head(todo))
       IN  /\ column_combo' = Head(todo)
           /\ IF r.exc # NoExc
              THEN /\ pc' = "raised"
                   /\ exc' = r.exc
                   /\ UNCHANGED <<todo, type_combos, combo_values, new_columns,
                                  performed, fired>>
              ELSE /\ type_combos' = r.val
                   /\ combo_values' = cvalues
                   /\ new_columns' = st.new_columns
                   /\ performed' = st.performed
                   /\ fired' = st.fired
                   /\ todo' = Tail(todo)
                   /\ UNCHANGED <<pc, exc>>
    /\ UNCHANGED <<args, columns, column_types, call, headers, ret>>

\* Line 229.
Return ==
    /\ pc = "loop" /\ todo = <<>>
    /\ ret' = new_columns
    /\ pc' = "done"
    /\ UNCHANGED <<args, columns, column_types, call, exc>>
    /\ UNCHANGED driverVars

----------------------------------------------------------------------------
\* A direct call of a processor on the columns and the type map.

Returns(fn, r) ==
    /\ pc = "start" /\ args.columns = "list"
    /\ call' = fn
    /\ pc' = IF r.exc = NoExc THEN "done" ELSE "raised"
    /\ ret' = r.val
    /\ exc' = r.exc
    /\ UNCHANGED <<args, columns, column_types>>
    /\ UNCHANGED driverVars

CallProcessCoords == Returns("process_coords", process_coords(columns, column_types))

CallProcessAddress ==
    Returns("process_address_components",
            process_address_components(columns, column_types))

CallProcessDatetime ==
    Returns("process_datetime", process_datetime(columns, column_types))

Next == Enter \/ Iterate \/ Return \/ CallProcessCoords \/ CallProcessAddress

Spec == Init /\ [][Next]_vars

\* process_datetime alone, on one column of 0..MaxRows raw values.
InitDatetime ==
    /\ \E values \in SeqsUpTo({<<raw>> : raw \in RawValues}, MaxRows) :
          columns = << <<HeaderNames[1], values>> >>
    /\ column_types = (HeaderNames[1] :> <<"datetime">>)
    /\ args = [columns |-> "list", df |-> "None"]
    /\ Idle

NextDatetime == CallProcessDatetime

SpecDatetime == InitDatetime /\ [][NextDatetime]_vars

----------------------------------------------------------------------------
\* Properties.

InDriver == call = "augment_columns"

Absent(h) == ~HasKey(column_types, h)

HasAbsent(combo) == \E j \in 1..Len(combo) : Absent(combo[j])

\* Every (column combo, type combo) of the enumeration whose pattern is
\* registered, in the order of the enumeration.
AllMatches ==
    LET cs == AllColumnCombos(headers)
    IN  Flatten([k \in 1..Len(cs) |->
          LET tcs == get_column_type_combos(cs[k], column_types).val
              all == [i \in 1..Len(tcs) |->
                        [column_combo |-> cs[k], combo |-> tcs[i],
                         pattern |-> PatternStr(tcs[i])]]
              hits == SelectSeq(all, LAMBDA m : m.pattern \in DOMAIN processors)
          IN  [i \in 1..Len(hits) |->
                 [f |-> processors[hits[i].pattern],
                  column_combo |-> hits[i].column_combo,
                  combo |-> hits[i].combo, pattern |-> hits[i].pattern]]])

\* C1: in a run of augment_columns each processor is marked fired at most
\* once, at every moment of the run; and when the run ends (it returns or
\* raises) the match that fired for a processor is the first match of that
\* processor in enumeration order, no match of that processor has a larger
\* subset, and, if the run returned, every processor that has a match has
\* fired, so that all its later matches were suppressed.
C1_ProcessorFiresOnceOnFirstMatch ==
    InDriver =>
        /\ \A i, j \in 1..Len(performed) : performed[i] = performed[j] => i = j
        /\ Len(fired) = Len(performed)
        /\ \A i \in 1..Len(fired) : fired[i].f = performed[i]
        /\ pc \in {"done", "raised"} =>
              LET ms == AllMatches
              IN  /\ \A i \in 1..Len(fired) :
                        /\ \E k \in 1..Len(ms) :
                              /\ ms[k] = fired[i]
                              /\ \A k2 \in 1..(k - 1) : ms[k2].f # fired[i].f
                        /\ \A k \in 1..Len(ms) :
                              ms[k].f = fired[i].f =>
                                  Len(ms[k].column_combo) <= Len(fired[i].column_combo)
                  /\ pc = "done" => \A k \in 1..Len(ms) : InSeq(ms[k].f, performed)

\* A run that returned in which one processor matched two overlapping column
\* subsets of different sizes.
C1_Witness ==
    /\ InDriver /\ pc = "done"
    /\ \E i \in 1..Len(fired) : \E k \in 1..Len(AllMatches) :
          /\ AllMatches[k].f = fired[i].f
          /\ Len(AllMatches[k].column_combo) < Len(fired[i].column_combo)
          /\ Range(AllMatches[k].column_combo) \cap Range(fired[i].column_combo) # {}

\* What processor f returns on the columns of a matched subset.
Invoke(f, cvalues, types) ==
    CASE f = "process_coords" -> process_coords(cvalues, types)
      [] f = "process_datetime" -> process_datetime(cvalues, types)
      [] f = "process_address_components" -> process_address_components(cvalues, types)

FiredOutput(i) ==
    Invoke(fired[i].f, ComboValues(columns, fired[i].column_combo), column_types)

\* C2: augment_columns returns, in firing order, the columns that each fired
\* processor returns on its matched subset, and nothing else.
C2_ReturnsAccumulatedOutput ==
    (InDriver /\ pc = "done" /\ \A i \in 1..Len(fired) : FiredOutput(i).exc = NoExc) =>
        LET expected == Flatten([i \in 1..Len(fired) |-> FiredOutput(i).val])
        IN  /\ Len(ret) = Len(expected)
            /\ ret = expected

AddressMatch(m, size) ==
    m.f = "process_address_components" /\ Len(m.column_combo) = size

\* C3: when a 3-column subset matches city,state,street and a 2-column subset
\* matches city,street, the address processor fires on a 3-column subset and
\* the output of augment_columns is the derivation from those three columns.
C3_RicherAddressWins ==
    (/\ InDriver /\ pc = "done"
     /\ \E k \in 1..Len(AllMatches) : AddressMatch(AllMatches[k], 3)
     /\ \E k \in 1..Len(AllMatches) : AddressMatch(AllMatches[k], 2)) =>
        \E i \in 1..Len(fired) :
            /\ AddressMatch(fired[i], 3)
            /\ Len(ret) = Len(FiredOutput(i).val)
            /\ ret = FiredOutput(i).val

\* The first column combo of the enumeration that satisfies P.
IsFirstCombo(combo, P(_)) ==
    LET cs == AllColumnCombos(headers)
    IN  \E k \in 1..Len(cs) :
            /\ cs[k] = combo /\ P(cs[k])
            /\ \A k2 \in 1..(k - 1) : ~P(cs[k2])

RaisedKeyError == InDriver /\ pc = "raised" /\ exc.type = "KeyError"

\* C4 (as stated): with a header absent from the type map, the KeyError is
\* raised by the expansion of the first enumerated subset containing that
\* header, for each absent header.
C4_RaisedAtFirstSubsetOfEachAbsentHeader ==
    RaisedKeyError =>
        \A h \in Range(headers) :
            Absent(h) => IsFirstCombo(column_combo, LAMBDA c : InSeq(h, c))

\* C4 (amended): with a header absent from the type map, augment_columns
\* raises KeyError from get_column_type_combos at the first enumerated subset
\* that contains an absent header: no subset enumerated before it contains
\* one, the run never returns, and no column is returned.
C4_RaisedAtFirstSubsetWithAbsentHeader ==
    InDriver =>
        LET cs == AllColumnCombos(headers)
        IN  /\ RaisedKeyError =>
                  /\ exc.where = "get_column_type_combos"
                  /\ IsFirstCombo(column_combo, HasAbsent)
                  /\ ret = <<>>
            /\ pc = "loop" => \A k \in 1..(Len(cs) - Len(todo)) : ~HasAbsent(cs[k])
            /\ pc = "done" => ~HasAbsent(headers)
            /\ (pc = "raised" /\ ~NotColumns) => HasAbsent(headers)

\* The run failed on a subset that lacks one of the absent headers.
C4_Witness ==
    /\ RaisedKeyError
    /\ \E h \in Range(headers) : Absent(h) /\ ~InSeq(h, column_combo)

\* C5: augment_columns without a column list and without a dataframe fails
\* with the error of line 185 before any subset is enumerated and returns
\* nothing; called with a column list it does not fail with that error.
C5_ArgumentError ==
    InDriver =>
        /\ (args.columns = "None" /\ args.df = "None") =>
              /\ pc = "raised" /\ exc.where = "augment_columns:185"
              /\ column_combo = <<>> /\ ret = <<>>
        /\ args.columns = "list" => exc.where # "augment_columns:185"

NumTagged(tag) == Len(TaggedColumns(tag, columns, column_types))

TheTagged(tag) == TaggedColumns(tag, columns, column_types)[1]

\* C6: process_coords returns an empty result and raises nothing unless the
\* input has exactly one column tagged latitude and exactly one tagged
\* longitude; with one of each it returns the single column
\* '<latName>_<lngName>' whose row i is '<lat_i>,<lng_i>'.
C6_CoordsSoftFailure ==
    (call = "process_coords" /\ ~MissingKey(columns, column_types)) =>
        /\ pc = "done"
        /\ IF NumTagged("latitude") = 1 /\ NumTagged("longitude") = 1
           THEN LET lat == TheTagged("latitude")
                    lng == TheTagged("longitude")
                IN  /\ Len(ret) = 1
                    /\ ret[1][1] = <<lat[1], "_", lng[1]>>
                    /\ ret[1][2] = [i \in 1..Len(lat[2]) |->
                                      lat[2][i] \o <<",">> \o lng[2][i]]
           ELSE ret = <<>>

\* C8: on columns with one city column and at most one street and one state
\* column, process_address_components returns the one column 'full_address'
\* with a value per input row; row i is '<street_i> <city_i>' with a street
\* column and '<city_i>' without, followed by ', <state_i>' with a state
\* column.
C8_FullAddress ==
    (/\ call = "process_address_components"
     /\ ~MissingKey(columns, column_types)
     /\ NumTagged("city") = 1 /\ NumTagged("street") <= 1 /\ NumTagged("state") <= 1) =>
        /\ pc = "done"
        /\ Len(ret) = 1
        /\ ret[1][1] = <<"full_address">>
        /\ Len(ret[1][2]) = MaxRows
        /\ \A i \in 1..MaxRows :
              ret[1][2][i] =
                  (IF NumTagged("street") = 1
                   THEN TheTagged("street")[2][i] \o <<" ">> ELSE <<>>)
                  \o TheTagged("city")[2][i]
                  \o (IF NumTagged("state") = 1
                      THEN <<", ">> \o TheTagged("state")[2][i] ELSE <<>>)

\* The processor returned on a street, a city and a state column, three
\* different columns.
C8_Witness ==
    /\ call = "process_address_components" /\ pc = "done"
    /\ ~MissingKey(columns, column_types)
    /\ NumTagged("city") = 1 /\ NumTagged("street") = 1 /\ NumTagged("state") = 1
    /\ TheTagged("city") # TheTagged("street")
    /\ Len(ret) = 1 /\ Len(ret[1][2][1]) = 5

RECURSIVE ProductOfSizes(_)
ProductOfSizes(lists) ==
    IF lists = <<>> THEN 1 ELSE Len(Head(lists)) * ProductOfSizes(Tail(lists))

Tags == UNION {Range(t) : t \in TagChoices}

\* The expansion of the last column combo is at hand.
Expanded == InDriver /\ pc # "raised" /\ column_combo # <<>>

\* C9: the type combos of a column combo are the cartesian product of the
\* per-column (name, tag) lists: each has one pair per column, in column
\* order, with a tag of that column; every choice of one tag per column is
\* among them; their number is the product of the numbers of tags, so there is
\* none when a column has no tag; and no processor fires on a subset with a
\* column that has no tag.
C9_CartesianProduct ==
    /\ Expanded =>
          LET k == Len(column_combo)
              tagsOf(j) == column_types[column_combo[j]]
          IN  /\ \A n \in 1..Len(type_combos) :
                    /\ Len(type_combos[n]) = k
                    /\ \A j \in 1..k :
                          /\ type_combos[n][j][1] = column_combo[j]
                          /\ InSeq(type_combos[n][j][2], tagsOf(j))
              /\ \A choice \in [1..k -> Tags] :
                    (\A j \in 1..k : InSeq(choice[j], tagsOf(j))) =>
                        \E n \in 1..Len(type_combos) :
                            \A j \in 1..k : type_combos[n][j][2] = choice[j]
              /\ Len(type_combos) = ProductOfSizes([j \in 1..k |-> tagsOf(j)])
              /\ (\E j \in 1..k : tagsOf(j) = <<>>) => type_combos = <<>>
    /\ InDriver =>
          \A i \in 1..Len(fired) : \A j \in 1..Len(fired[i].column_combo) :
              column_types[fired[i].column_combo[j]] # <<>>

\* A three-column combo was expanded into four type combos.
C9_Witness ==
    Expanded /\ Len(column_combo) = 3 /\ Len(type_combos) = 4

AddressPatterns == {p \in DOMAIN processors : processors[p] = "process_address_components"}

\* C10: when the columns match an address pattern through a type combo, which
\* gives the roles to different columns, each value of full_address takes its
\* street, its city (and its state) from different columns.
C10_RolesFromDistinctColumns ==
    (/\ call = "process_address_components" /\ pc = "done"
     /\ \E combo \in Range(get_column_type_combos(
                              [i \in 1..Len(columns) |-> columns[i][1]], column_types).val) :
            PatternStr(combo) \in AddressPatterns) =>
        \A i \in 1..MaxRows :
            LET row == ret[1][2][i]
                from(k, tok) == columns[k][2][i] = <<tok>>
            IN  /\ Len(row) >= 3
                /\ \E s, c \in 1..Len(columns) :
                      /\ s # c /\ from(s, row[1]) /\ from(c, row[3])
                      /\ Len(row) = 5 =>
                            \E r \in 1..Len(columns) :
                                r # s /\ r # c /\ from(r, row[5])

\* The rows of the one input column, parsed.
DatetimeRows == clean_dates(columns[1][2])

OutputNames == [n \in 1..Len(ret) |-> ret[n][1]]

\* C7: for every sequence of date-times, the empty one included,
\* process_datetime emits '<header>_day_of_week' exactly when the weekdays of
\* the rows are not all the same, '<header>_day_of_month' exactly when the day
\* numbers are not all the same and '<header>_hour_of_day' exactly when some
\* time is not 00:00:00, in this order, each with one value per row.
C7_DatetimeColumns ==
    call = "process_datetime" =>
        LET rows == DatetimeRows
            header == columns[1][1]
            vary(field) == \E i, j \in 1..Len(rows) : rows[i][field] # rows[j][field]
        IN  /\ pc = "done"
            /\ OutputNames =
                  (IF vary("dayofweek") THEN << <<header, "_day_of_week">> >> ELSE <<>>)
                  \o (IF vary("day") THEN << <<header, "_day_of_month">> >> ELSE <<>>)
                  \o (IF \E i \in 1..Len(rows) : rows[i].time # <<0, 0, 0>>
                      THEN << <<header, "_hour_of_day">> >> ELSE <<>>)
            /\ \A n \in 1..Len(ret) : Len(ret[n][2]) = Len(rows)

====
